---------------------------- MODULE Spec2Model ----------------------------
(***************************************************************************)
(* Model of the alpha-quantum repository:                                  *)
(*   - model/quantum_model.py : QuantumOptimization (QAOA circuit and the  *)
(*     fixed-length optimisation loop run_qaoa_with_ai_optimization);      *)
(*   - src/main.py            : PluginManager / QuantumComputingModel.     *)
(*                                                                         *)
(* Three specifications share the variables:                               *)
(*   Spec         the optimisation run (one process walking through        *)
(*                run_qaoa_with_ai_optimization, run after run);           *)
(*   SpecCircuit  direct calls of the QNode returned by qaoa_circuit();    *)
(*   SpecPlugins  register_plugin / run_component on the plugin registry.  *)
(*                                                                         *)
(* Calls into external libraries (PennyLane's simulator and optimiser,     *)
(* NumPy's generator) are not part of the repository.  Their outcomes are  *)
(* environment choices: a call either raises or yields a value of the      *)
(* shape the library documents.  Angles are discretised to 0..NumAngles-1. *)
(***************************************************************************)
EXTENDS Integers, Sequences, FiniteSets

\* ---------------------------------------------------------------- bounds
NumAngles == 2      \* discretisation of [0, 2*pi)
RngMod == 5         \* number of states of the global generator
MaxP == 2           \* layer counts 1..MaxP
MaxRuns == 2        \* optimisation runs per process
MaxQubits == 2      \* qubit counts 1..MaxQubits
MaxLen == 4         \* length of a parameter vector handed to the circuit
MaxRegs == 2        \* register_plugin calls after construction

\* ------------------------------------------------------ program constants
steps == 100        \* quantum_model.py:100
log_every == 10     \* quantum_model.py:104

Angles == 0 .. (NumAngles - 1)
Hams == {"ZZ", "ZZchain"}       \* abstract problem Hamiltonians

VARIABLES
    np_random,      \* state of numpy's process-wide generator
    n_qubits,       \* QuantumOptimization.n_qubits
    pc,             \* position of the run: idle, loop, post, returned, raised
    p,              \* argument p of the current run
    params,         \* local variable params
    i,              \* loop variable of "for i in range(steps)"
    stepCalls,      \* history: number of opt.step invocations of the run
    failures,       \* history: iterations whose try body raised
    lastStepResult, \* history: value of the last opt.step that returned
    stream,         \* history: the (i, cost) pairs printed at line 105
    result,         \* <<>> or <<the tuple returned at line 125>>
    runsLog,        \* history: p and initial vector of every run started
    call,           \* last direct circuit call: its arguments and outcome
    plugins,        \* PluginManager.plugins
    regLog,         \* history: every register_plugin call, in order
    lastCall        \* last run_component call and its outcome

optVars == <<np_random, pc, p, params, i, stepCalls, failures,
             lastStepResult, stream, result, runsLog>>
plugVars == <<plugins, regLog, lastCall>>
vars == <<np_random, n_qubits, pc, p, params, i, stepCalls, failures,
          lastStepResult, stream, result, runsLog, call, plugins, regLog,
          lastCall>>


\* ------------------------------------------------------------ numpy, RNG
\* One draw advances the process-wide generator; the generator is never
\* seeded by the program, so its initial state is arbitrary.
rng_next(s) == (s + 1) % RngMod

\* np.random.uniform(0, 2*pi, size): size draws, in order, from the global
\* generator.  Yields the generator's new state and the drawn angles.
RECURSIVE uniform(_, _)
uniform(s, size) ==
    IF size <= 0 THEN [state |-> s, out |-> <<>>]
    ELSE LET r == uniform(s, size - 1)
             s2 == rng_next(r.state)
         IN [state |-> s2, out |-> Append(r.out, s2 % NumAngles)]

\* qml.numpy.array(x, requires_grad=True): a new tensor with x's entries.
numpy_array(x) == [k \in 1 .. Len(x) |-> x[k]]

\* ------------------------------------------------- QuantumOptimization
ai_parameter_initialization_half(s, pp) == uniform(s, pp)

ai_parameter_initialization(s, pp) == uniform(s, 2 * pp)

\* get_ai_optimizer() returns qml.AdamOptimizer; opt.step(cost_function, x)
\* either raises or returns an updated vector of x's shape.  The update is
\* abstracted to a move of every angle by the step's gradient estimate g.
AdamMove(x, g) == [k \in 1 .. Len(x) |-> (x[k] + NumAngles - g) % NumAngles]

StepOutcomes(x) ==
    {[ok |-> FALSE, value |-> x]} \cup
    {[ok |-> TRUE, value |-> AdamMove(x, g)] : g \in Angles}

\* cost_function(params): np.sum over the circuit's expectation values, or
\* the exception of the circuit re-raised (lines 83-90).
CostOutcomes == {[ok |-> FALSE, value |-> "none"], [ok |-> TRUE, value |-> "finite"]}

\* "params = opt.step(...)" when opt.step raises: the assignment does not
\* happen and params keeps its value.
StepRaised_partial(x) == AdamMove(x, 1)

StepRaised(x) == x

\* "if i % 10 == 0" before the print of (i, cost).
ShouldLog_every_step(k) == TRUE

ShouldLog(k) == k % log_every = 0

\* "for i in range(steps)": is there an iteration k?
range_has_next_short(k) == k < steps - 1

range_has_next(k) == k < steps

\* Where the run is after iteration k ended without an exception.
NextIteration(k) ==
    IF range_has_next(k + 1) THEN [pc |-> "loop", i |-> k + 1]
    ELSE [pc |-> "post", i |-> k]

\* "except Exception: print(...); break" at iteration k.
OnExcept_continue(k) == NextIteration(k)

OnExcept(k) == [pc |-> "post", i |-> k]

\* calculate_t_count: a placeholder returning 0.
calculate_t_count == 0

InitOpt ==
    /\ np_random \in 0 .. (RngMod - 1)
    /\ n_qubits = MaxQubits
    /\ pc = "idle"
    /\ p = 1
    /\ params = <<>>
    /\ i = 0
    /\ stepCalls = 0
    /\ failures = <<>>
    /\ lastStepResult = <<>>
    /\ stream = <<>>
    /\ result = <<>>
    /\ runsLog = <<>>
    /\ call = <<>>
    /\ plugins = <<>>
    /\ regLog = <<>>
    /\ lastCall = <<>>

\* run(problem_hamiltonian, p) up to the loop: lines 41-42 and 78-100.
StartRun(pp) ==
    /\ pc \in {"idle", "returned", "raised"}
    /\ Len(runsLog) < MaxRuns
    /\ LET r == ai_parameter_initialization(np_random, pp)
           init_params == numpy_array(r.out)
       IN /\ np_random' = r.state
          /\ params' = init_params
          /\ lastStepResult' = init_params
          /\ runsLog' = Append(runsLog, [p |-> pp, init |-> init_params])
    /\ p' = pp
    /\ i' = 0
    /\ pc' = IF range_has_next(0) THEN "loop" ELSE "post"
    /\ stepCalls' = 0
    /\ failures' = <<>>
    /\ stream' = <<>>
    /\ result' = <<>>
    /\ UNCHANGED <<n_qubits, call, plugins, regLog, lastCall>>

\* One pass through the loop body, lines 101-108.
LoopIteration ==
    /\ pc = "loop"
    /\ \E stepOut \in StepOutcomes(params), costOut \in CostOutcomes :
         LET logs == stepOut.ok /\ ShouldLog(i)
             raised == ~stepOut.ok \/ (logs /\ ~costOut.ok)
             nxt == IF raised THEN OnExcept(i) ELSE NextIteration(i)
         IN /\ stepCalls' = stepCalls + 1
            /\ params' = IF stepOut.ok THEN stepOut.value ELSE StepRaised(params)
            /\ lastStepResult' = IF stepOut.ok THEN stepOut.value ELSE lastStepResult
            /\ stream' = IF logs /\ costOut.ok
                         THEN Append(stream, [iteration |-> i, cost |-> costOut.value])
                         ELSE stream
            /\ failures' = IF raised
                           THEN Append(failures,
                                       [at |-> i,
                                        kind |-> IF stepOut.ok THEN "cost" ELSE "step"])
                           ELSE failures
            /\ pc' = nxt.pc
            /\ i' = nxt.i
    /\ UNCHANGED <<np_random, n_qubits, p, result, runsLog, call, plugins,
                   regLog, lastCall>>

\* After the loop, lines 110-128: post-optimisation circuit call, T-count,
\* final cost, return; any exception is printed and re-raised.
Finish ==
    /\ pc = "post"
    /\ \E simplOut \in CostOutcomes, costOut \in CostOutcomes :
         LET final_params == numpy_array(params)
         IN /\ params' = final_params
            /\ IF simplOut.ok /\ costOut.ok
               THEN /\ pc' = "returned"
                    /\ result' = <<[params |-> final_params,
                                    cost |-> costOut.value,
                                    t_count |-> calculate_t_count]>>
               ELSE /\ pc' = "raised"
                    /\ result' = <<>>
    /\ UNCHANGED <<np_random, n_qubits, p, i, stepCalls, failures,
                   lastStepResult, stream, runsLog, call, plugins, regLog,
                   lastCall>>

Next ==
    \/ \E pp \in 1 .. MaxP : StartRun(pp)
    \/ LoopIteration
    \/ Finish

Spec == InitOpt /\ [][Next]_vars


\* ------------------------------------------- properties of the run (Spec)
LoopLeft == pc \in {"post", "returned", "raised"}
Failed == failures # <<>>
ThisRun == runsLog[Len(runsLog)]

\* Number of loop iterations of the current run that ended without raising.
Completed == IF Failed THEN failures[1].at ELSE stepCalls

IsPrefix(s, t) == Len(s) <= Len(t) /\ \A k \in 1 .. Len(s) : s[k] = t[k]

\* C1: a run in which an iteration raised never ends with a normal
\* (params, cost, t_count) result.
C1_FailedRunNeverReturns == Failed => pc # "returned"

\* C2: once the step of iteration k has failed, opt.step has been invoked
\* exactly k+1 times in the run, the loop is left, and this stays so.
C2_NoStepAfterFailure ==
    Failed => /\ Len(failures) = 1
              /\ stepCalls = failures[1].at + 1
              /\ i = failures[1].at
              /\ LoopLeft

C2_Witness ==
    /\ Failed
    /\ failures[1].kind = "step"
    /\ failures[1].at = 3
    /\ pc = "returned"

C4_ExactlyStepsIterations ==
    /\ stepCalls <= steps
    /\ pc = "loop" => (stepCalls = i /\ i < steps)
    /\ (LoopLeft /\ ~Failed) => stepCalls = steps

C4_Witness == pc = "returned" /\ ~Failed /\ stepCalls = steps

\* C5: the parameter vector has length 2p after initialisation, after every
\* optimizer step and in the returned result.
C5_LengthIs2p ==
    pc # "idle" =>
        /\ Len(ThisRun.init) = 2 * p
        /\ Len(params) = 2 * p
        /\ Len(lastStepResult) = 2 * p
        /\ result # <<>> => Len(result[1].params) = 2 * p

C5_Witness == pc = "returned" /\ p = MaxP /\ stepCalls = steps /\ Len(params) = 2 * MaxP

\* C8 as stated: every completed step records one pair, so the stream of a
\* run has one entry per completed iteration, with indices 0, 1, 2, ...
C8_EveryStepRecorded ==
    pc # "idle" =>
        /\ Len(stream) = Completed
        /\ \A k \in 1 .. Len(stream) : stream[k].iteration = k - 1

\* C8 amended: only the iterations i with i % 10 = 0 record a pair: the k-th
\* entry has index 10*(k-1), the stream has one entry per completed
\* iteration that is a multiple of 10 (10 entries, 0..90, after a run
\* without failures), and within a run the stream only grows by appending.
C8_EveryTenthStepRecorded ==
    /\ [](pc # "idle" =>
            /\ \A k \in 1 .. Len(stream) : stream[k].iteration = log_every * (k - 1)
            /\ Len(stream) = (Completed + log_every - 1) \div log_every
            /\ (LoopLeft /\ ~Failed) => Len(stream) = steps \div log_every)
    /\ [][runsLog' = runsLog => IsPrefix(stream, stream')]_vars

C8_Witness ==
    /\ pc = "returned"
    /\ ~Failed
    /\ Len(stream) = 10
    /\ stream[10].iteration = 90

\* C9: two runs of one process with the same p start from the same initial
\* parameter vector.
C9_SameInputsSameInit ==
    \A a, b \in 1 .. Len(runsLog) :
        runsLog[a].p = runsLog[b].p => runsLog[a].init = runsLog[b].init


\* ------------------------------------------------ the QAOA circuit (QNode)
Hadamard(w) == [gate |-> "Hadamard", wire |-> w]
RX(a, w) == [gate |-> "RX", angle |-> a, wire |-> w]
ApproxTimeEvolution(h, t, n) == [gate |-> "ApproxTimeEvolution", ham |-> h, time |-> t, n |-> n]

\* alphatensor_quantum_t_reduction: a placeholder returning its argument.
alphatensor_quantum_t_reduction(h) == h

apply_problem_unitary_with_t_reduction(h, param) ==
    <<ApproxTimeEvolution(alphatensor_quantum_t_reduction(h), param, 1)>>

\* "for i in range(self.n_qubits): qml.Hadamard(wires=i)"
InitialState(n) == [q \in 1 .. n |-> Hadamard(q - 1)]

\* "p = len(params) // 2"
layer_count(ps) == Len(ps) \div 2

\* params[p + i], the angle of layer i's mixer (params is 0-based in the
\* code, 1-based here).
MixerAngle_problem(ps, pl, l) == ps[l + 1]

MixerAngle(ps, pl, l) == ps[pl + l + 1]

\* "for j in range(self.n_qubits): qml.RX(params[p + i], wires=j)"
Mixer(n, a) == [j \in 1 .. n |-> RX(a, j - 1)]

\* The gates of the layers 0 .. k-1 of "for i in range(p)".
RECURSIVE Layers(_, _, _, _, _)
Layers(n, h, ps, pl, k) ==
    IF k = 0 THEN <<>>
    ELSE Layers(n, h, ps, pl, k - 1)
           \o apply_problem_unitary_with_t_reduction(h, ps[k])
           \o Mixer(n, MixerAngle(ps, pl, k - 1))

\* The operations queued by circuit(problem_hamiltonian, params), lines 47-63.
circuit(n, h, ps) ==
    InitialState(n) \o Layers(n, h, ps, layer_count(ps), layer_count(ps))

ParamVectors == UNION {[1 .. l -> Angles] : l \in 0 .. MaxLen}

InitCircuit ==
    /\ np_random = 0
    /\ n_qubits \in 1 .. MaxQubits
    /\ pc = "idle"
    /\ p = 1
    /\ params = <<>>
    /\ i = 0
    /\ stepCalls = 0
    /\ failures = <<>>
    /\ lastStepResult = <<>>
    /\ stream = <<>>
    /\ result = <<>>
    /\ runsLog = <<>>
    /\ call = <<>>
    /\ plugins = <<>>
    /\ regLog = <<>>
    /\ lastCall = <<>>

\* quantum_opt.qaoa_circuit()(problem_hamiltonian, params): the body of the
\* QNode has no check of len(params) and raises nothing of its own.
CallCircuit(h, ps) ==
    /\ call' = <<[ham |-> h, params |-> ps, ops |-> circuit(n_qubits, h, ps),
                  error |-> "none"]>>
    /\ UNCHANGED <<n_qubits, optVars, plugVars>>

NextCircuit == \E h \in Hams, ps \in ParamVectors : CallCircuit(h, ps)

SpecCircuit == InitCircuit /\ [][NextCircuit]_vars

\* C6: a circuit call with a parameter vector of odd length (a length that
\* is 2p for no p) fails with a ConfigurationError and queues no gate.
C6_OddLengthRejected ==
    (call # <<>> /\ Len(call[1].params) % 2 = 1) =>
        /\ call[1].error = "ConfigurationError"
        /\ call[1].ops = <<>>

CountGates(ops, g) == Cardinality({k \in 1 .. Len(ops) : ops[k].gate = g})

\* C7: for a vector of length 2p the queued operations are n Hadamards on
\* wires 0..n-1, then per layer l = 0..p-1 one problem evolution with angle
\* params[l] followed by RX(params[p+l]) on wires 0..n-1, layer after layer.
C7_CircuitShape ==
    (call # <<>> /\ Len(call[1].params) % 2 = 0) =>
        LET c == call[1]
            n == n_qubits
            pl == Len(c.params) \div 2
            base(l) == n + l * (n + 1)
        IN /\ Len(c.ops) = n + pl * (n + 1)
           /\ CountGates(c.ops, "Hadamard") = n
           /\ CountGates(c.ops, "ApproxTimeEvolution") = pl
           /\ CountGates(c.ops, "RX") = n * pl
           /\ \A q \in 1 .. n : c.ops[q] = [gate |-> "Hadamard", wire |-> q - 1]
           /\ \A l \in 0 .. (pl - 1) :
                /\ c.ops[base(l) + 1] =
                     [gate |-> "ApproxTimeEvolution", ham |-> c.ham,
                      time |-> c.params[l + 1], n |-> 1]
                /\ \A j \in 1 .. n :
                     c.ops[base(l) + 1 + j] =
                       [gate |-> "RX", angle |-> c.params[pl + l + 1], wire |-> j - 1]

C7_Witness ==
    /\ call # <<>>
    /\ n_qubits = 2
    /\ call[1].params = <<0, 1, 1, 0>>
    /\ Len(call[1].ops) = 8
    /\ call[1].ops[4].gate = "RX"
    /\ call[1].ops[6].gate = "ApproxTimeEvolution"

\* --------------------------------- PluginManager, QuantumComputingModel
\* A Python value that can sit in the registry: its identity and the
\* result of bool() on it (None, or a component defining __bool__ or
\* __len__, is falsy).
None == [id |-> "None", truthy |-> FALSE]
Builtin(cls) == [id |-> cls, truthy |-> TRUE]
UserPlugins == {[id |-> "UserComponent", truthy |-> TRUE],
                [id |-> "EmptyPipeline", truthy |-> FALSE]}
BuiltinNames == {"algorithm", "simulation", "ml", "crypto", "qec"}
Names == BuiltinNames \cup {"custom"}

\* "self.plugins[name] = plugin"
register_plugin(d, name, plugin) ==
    [k \in (DOMAIN d) \cup {name} |-> IF k = name THEN plugin ELSE d[k]]

\* "return self.plugins.get(name)"
get_plugin(d, name) == IF name \in DOMAIN d THEN d[name] ELSE None

\* "if component:"
Found(component) == component.truthy

\* QuantumComputingModel.__init__: the five registrations, in order.
ConstructorRegs ==
    <<[name |-> "algorithm", plugin |-> Builtin("QuantumAlgorithm")],
      [name |-> "simulation", plugin |-> Builtin("QuantumSimulation")],
      [name |-> "ml", plugin |-> Builtin("QuantumMachineLearning")],
      [name |-> "crypto", plugin |-> Builtin("QuantumCryptography")],
      [name |-> "qec", plugin |-> Builtin("QuantumErrorCorrection")]>>

RECURSIVE RegisterAll(_, _)
RegisterAll(regs, k) ==
    IF k = 0 THEN <<>>
    ELSE register_plugin(RegisterAll(regs, k - 1), regs[k].name, regs[k].plugin)

InitPlugins ==
    /\ np_random = 0
    /\ n_qubits = 1
    /\ pc = "idle"
    /\ p = 1
    /\ params = <<>>
    /\ i = 0
    /\ stepCalls = 0
    /\ failures = <<>>
    /\ lastStepResult = <<>>
    /\ stream = <<>>
    /\ result = <<>>
    /\ runsLog = <<>>
    /\ call = <<>>
    /\ plugins = RegisterAll(ConstructorRegs, Len(ConstructorRegs))
    /\ regLog = ConstructorRegs
    /\ lastCall = <<>>

\* plugin_manager.register_plugin(name, plugin)
RegisterPlugin(name, plugin) ==
    /\ Len(regLog) < Len(ConstructorRegs) + MaxRegs
    /\ plugins' = register_plugin(plugins, name, plugin)
    /\ regLog' = Append(regLog, [name |-> name, plugin |-> plugin])
    /\ UNCHANGED <<lastCall, n_qubits, call, optVars>>

\* run_component(name, ...), lines 160-165.
RunComponent(name) ==
    /\ LET component == get_plugin(plugins, name)
       IN lastCall' =
            IF Found(component)
            THEN <<[name |-> name, regs |-> Len(regLog),
                    invoked |-> <<component>>, error |-> "none"]>>
            ELSE <<[name |-> name, regs |-> Len(regLog),
                    invoked |-> <<>>, error |-> "ValueError"]>>
    /\ UNCHANGED <<plugins, regLog, n_qubits, call, optVars>>

NextPlugins ==
    \/ \E name \in Names, plugin \in UserPlugins : RegisterPlugin(name, plugin)
    \/ \E name \in Names \cup {"unknown"} : RunComponent(name)

SpecPlugins == InitPlugins /\ [][NextPlugins]_vars

\* The registrations under `name` among the first k of the log.
RegsOf(name, k) == {r \in 1 .. k : regLog[r].name = name}
Max(S) == CHOOSE x \in S : \A y \in S : y <= x

\* C10: run_component(name) invokes run once, on the plugin most recently
\* registered under that name; for a name never registered it raises
\* ValueError and invokes nothing.
C10_DispatchToLatest ==
    lastCall # <<>> =>
        LET c == lastCall[1]
            regs == RegsOf(c.name, c.regs)
        IN IF regs # {}
           THEN c.invoked = <<regLog[Max(regs)].plugin>> /\ c.error = "none"
           ELSE c.invoked = <<>> /\ c.error = "ValueError"

=============================================================================
